---- MODULE Spec2Model ----
(***************************************************************************)
(* Divine Darshan client: the Session Store (src/contexts/AuthContext.tsx) *)
(* and the two HTTP client modules (src/services/api.ts and                *)
(* src/frontent/services/api.ts).                                          *)
(*                                                                         *)
(* JavaScript values that may be absent (null / undefined) are modelled as *)
(* sequences of length 0 or 1: <<>> is the absent value, <<v>> is v.       *)
(***************************************************************************)
EXTENDS Integers, Sequences, FiniteSets, TLC

VARIABLES
    divine_token,   \* localStorage['divine_token']: <<>> or <<token>>
    user,           \* AuthProvider state `user`: <<>> (null) or <<user>>
    isLoading,      \* AuthProvider state `isLoading`
    loadPc,         \* position of the loadUser effect
    nextId,         \* number of the next call made by the Session Store
    inflight,       \* Session Store requests sent and not yet answered
    lastRequest,    \* config of the most recent outgoing request, after the interceptors
    lastResponse,   \* the response most recently delivered to a Session Store continuation
    lastResult,     \* settlement of the most recently completed login/signup promise
    lastCall,       \* the operation or continuation that ran last
    errIn,          \* argument of a direct getApiErrorMessage call
    errOut,         \* outcome of that call
    view,               \* LoginModal state `view`
    loginIdentifier,    \* LoginModal field states, as sequences of characters
    signupName,         \* LoginModal state `name`
    email,
    mobile,
    resetEmail,
    password,
    formError,          \* LoginModal state `formError`
    validationErrors,   \* LoginModal state `validationErrors`: field name -> message
    isSubmitting,       \* LoginModal state `isSubmitting`
    pending,            \* handleLogin/handleSignup invocations suspended at their await
    timers,             \* pending setTimeout callbacks of handlePasswordReset
    onLoginSuccessCalls,\* arguments of the onLoginSuccess calls made so far
    lastEvent           \* the LoginModal handler or callback that ran last

fieldVars == <<loginIdentifier, signupName, email, mobile, resetEmail, password>>

modalVars == <<view, fieldVars, formError, validationErrors, isSubmitting,
               pending, timers, onLoginSuccessCalls, lastEvent>>

vars == <<divine_token, user, isLoading, loadPc, nextId, inflight,
          lastRequest, lastResponse, lastResult, lastCall, errIn, errOut, modalVars>>

storeVars == <<divine_token, user, isLoading, loadPc, nextId, inflight,
               lastRequest, lastResponse, lastResult, lastCall>>

(***************************************************************************)
(* Bounds                                                                  *)
(***************************************************************************)
\* login/signup calls the Session Store makes in one run (besides loadUser's getMe)
MaxCalls == 2

Null == <<>>

(***************************************************************************)
(* The backend's accounts: each account has one user record and one token. *)
(***************************************************************************)
Accounts == {"A", "B"}
TokenOf(a) == "tok" \o a
UserOf(a) == "user" \o a
Tokens == {TokenOf(a) : a \in Accounts}

(***************************************************************************)
(* JavaScript truthiness of an optional string.                            *)
(***************************************************************************)
Truthy(v) == v # Null /\ v[1] # ""

(***************************************************************************)
(* Error values a catch block can receive.                                 *)
(***************************************************************************)
StatusLines == {<<401, "Unauthorized">>, <<500, "">>}
BodyMessages == {Null, <<"">>, <<"Invalid credentials">>}
ErrorMessages == {Null, <<"">>, <<"boom">>}

\* error.response.data: absent, or an object with an optional message field
ResponseData == {Null} \cup {<<[message |-> m]>> : m \in BodyMessages}

\* error.response: absent, or {status, statusText, data}
ErrorResponses ==
    {Null} \cup {<<[status |-> s[1], statusText |-> s[2], data |-> d]>> :
                    s \in StatusLines, d \in ResponseData}

ObjectErrors ==
    [kind : {"object"}, isAxiosError : BOOLEAN, response : ErrorResponses,
     request : BOOLEAN, message : ErrorMessages]

NoFields == [isAxiosError |-> FALSE, response |-> Null, request |-> FALSE, message |-> Null]
NullError == [kind |-> "null"] @@ NoFields
UndefinedError == [kind |-> "undefined"] @@ NoFields

ErrorValues == ObjectErrors \cup {NullError, UndefinedError}

\* What axios (or an exception in the try block) rejects with: always an object.
\* An AxiosError carries a message, and a response only when the request was
\* sent; any other Error has neither a request nor a response.
Rejections ==
    {e \in ObjectErrors :
        IF e.isAxiosError
        THEN Truthy(e.message) /\ (e.response # Null => e.request)
        ELSE e.response = Null /\ ~e.request}

(***************************************************************************)
(* getApiErrorMessage: returns [threw, value].                             *)
(***************************************************************************)
NoResponseMessage == "No response from server. Please check your network connection."
UnexpectedMessage == "An unexpected error occurred."

Returns(s) == [threw |-> FALSE, value |-> <<s>>]
Throws == [threw |-> TRUE, value |-> Null]

\* axios.isAxiosError(payload): isObject(payload) && payload.isAxiosError === true
isAxiosError(error) == error.kind = "object" /\ error.isAxiosError

\* error.response.data?.message
DataMessage(response) ==
    IF response.data = Null THEN Null ELSE response.data[1].message

StatusString(response) ==
    "Error: " \o ToString(response.status) \o " - " \o response.statusText

\* the final `return error.message || '...'`: a property read on null/undefined throws
ErrorOwnMessage(error) ==
    IF error.kind # "object" THEN Throws
    ELSE IF Truthy(error.message) THEN Returns(error.message[1])
    ELSE Returns(UnexpectedMessage)

getApiErrorMessage(error) ==
    IF isAxiosError(error)
    THEN IF error.response # Null
         THEN IF Truthy(DataMessage(error.response[1]))
              THEN Returns(DataMessage(error.response[1])[1])
              ELSE Returns(StatusString(error.response[1]))
         ELSE IF error.request
              THEN Returns(NoResponseMessage)
              ELSE ErrorOwnMessage(error)
    ELSE ErrorOwnMessage(error)

(***************************************************************************)
(* The HTTP clients.                                                       *)
(***************************************************************************)
\* the two client modules: src/services/api.ts and src/frontent/services/api.ts
Clients == {"services", "frontent"}

\* exported endpoint methods: <<name, verb, path>>
Endpoints ==
    { <<"loginUser", "post", "/auth/login">>,
      <<"registerUser", "post", "/auth/register">>,
      <<"getMe", "get", "/auth/me">>,
      <<"getTemples", "get", "/temples">>,
      <<"getTempleById", "get", "/temples/:id">>,
      <<"addTemple", "post", "/temples">>,
      <<"updateTemple", "put", "/temples/:id">>,
      <<"deleteTemple", "delete", "/temples/:id">>,
      <<"getServices", "get", "/services">>,
      <<"addService", "post", "/services">>,
      <<"updateService", "put", "/services/:id">>,
      <<"deleteService", "delete", "/services/:id">>,
      <<"getTestimonials", "get", "/content/testimonials">>,
      <<"getSeasonalEvent", "get", "/content/seasonalevent">>,
      <<"updateSeasonalEvent", "put", "/content/seasonalevent">>,
      <<"addTestimonial", "post", "/content/testimonials">>,
      <<"updateTestimonial", "put", "/content/testimonials/:id">>,
      <<"deleteTestimonial", "delete", "/content/testimonials/:id">>,
      <<"createBooking", "post", "/bookings">>,
      <<"getUserBookings", "get", "/bookings/my-bookings">>,
      <<"getAllBookings", "get", "/bookings/all">>,
      <<"getUsers", "get", "/users">>,
      <<"createSubscription", "post", "/subscriptions">>,
      <<"getSubscriptionsByUserId", "get", "/subscriptions/my-subscriptions">> }

EndpointNames == {e[1] : e \in Endpoints}

Bearer(token) == "Bearer " \o token

\* the request config an endpoint method hands to the interceptors
BaseConfig(client, name) ==
    [client |-> client, name |-> name, Authorization |-> Null]

\* src/services/api.ts request interceptor
servicesInterceptor(config, storage) ==
    IF Truthy(storage)
    THEN [config EXCEPT !.Authorization = <<Bearer(storage[1])>>]
    ELSE config

\* src/frontent/services/api.ts request interceptor: logs and returns the config
frontentInterceptor(config, storage) == config

\* the config that leaves the client
Outgoing(client, name, storage) ==
    IF client = "services"
    THEN servicesInterceptor(BaseConfig(client, name), storage)
    ELSE frontentInterceptor(BaseConfig(client, name), storage)

(***************************************************************************)
(* The Session Store (AuthProvider).                                       *)
(***************************************************************************)
NoResult == [call |-> "none", settled |-> "none", success |-> FALSE, error |-> Null]

StoreInit ==
    /\ divine_token \in {Null} \cup {<<t>> : t \in Tokens}
    /\ user = Null
    /\ isLoading = TRUE
    /\ loadPc = "start"
    /\ nextId = 1
    /\ inflight = {}
    /\ lastRequest = Null
    /\ lastResponse = Null
    /\ lastResult = NoResult
    /\ lastCall = "none"

\* the useState initial values of LoginModal
ModalInit ==
    /\ view = "login"
    /\ loginIdentifier = <<>>
    /\ signupName = <<>>
    /\ email = <<>>
    /\ mobile = <<>>
    /\ resetEmail = <<>>
    /\ password = <<>>
    /\ formError = ""
    /\ validationErrors = <<>>
    /\ isSubmitting = FALSE
    /\ pending = {}
    /\ timers = 0
    /\ onLoginSuccessCalls = <<>>
    /\ lastEvent = "none"

Init ==
    /\ StoreInit
    /\ errIn = UndefinedError
    /\ errOut = Null
    /\ ModalInit

\* a Session Store call of an endpoint method of src/services/api.ts
Send(id, name) ==
    LET config == Outgoing("services", name, divine_token) IN
    /\ inflight' = inflight \cup {[id |-> id, config |-> config]}
    /\ lastRequest' = <<config>>

\* the request's promise settles and its continuation runs
Deliver(r, ok, account) ==
    /\ inflight' = inflight \ {r}
    /\ lastResponse' = <<[id |-> r.id, name |-> r.config.name, ok |-> ok, account |-> account]>>

\* loadUser without the `if (token)` test
loadUserAlwaysFetches ==
    /\ loadPc = "start"
    /\ Send(0, "getMe")
    /\ loadPc' = "awaitGetMe"
    /\ lastCall' = "loadUser"
    /\ UNCHANGED <<divine_token, user, isLoading, nextId, lastResponse, lastResult, errIn, errOut>>

\* loadUser up to its first await (or to its end when no token is stored)
loadUser ==
    /\ loadPc = "start"
    /\ IF Truthy(divine_token)
       THEN /\ Send(0, "getMe")
            /\ loadPc' = "awaitGetMe"
            /\ UNCHANGED isLoading
       ELSE /\ isLoading' = FALSE
            /\ loadPc' = "done"
            /\ UNCHANGED <<inflight, lastRequest>>
    /\ lastCall' = "loadUser"
    /\ UNCHANGED <<divine_token, user, nextId, lastResponse, lastResult, errIn, errOut>>

\* getMe resolved: /auth/me answers with the user the bearer token belongs to
loadUserResolve(r, a) ==
    /\ loadPc = "awaitGetMe"
    /\ r \in inflight
    /\ r.config.name = "getMe"
    /\ r.config.Authorization = <<Bearer(TokenOf(a))>>
    /\ Deliver(r, TRUE, <<a>>)
    /\ user' = <<UserOf(a)>>
    /\ isLoading' = FALSE
    /\ loadPc' = "done"
    /\ lastCall' = "loadUserResolve"
    /\ UNCHANGED <<divine_token, nextId, lastRequest, lastResult, errIn, errOut>>

\* loadUser's catch block without localStorage.removeItem
loadUserRejectKeepsToken(r) ==
    /\ loadPc = "awaitGetMe"
    /\ r \in inflight
    /\ r.config.name = "getMe"
    /\ Deliver(r, FALSE, Null)
    /\ user' = Null
    /\ isLoading' = FALSE
    /\ loadPc' = "done"
    /\ lastCall' = "loadUserReject"
    /\ UNCHANGED <<divine_token, nextId, lastRequest, lastResult, errIn, errOut>>

\* getMe rejected: the catch block, then setIsLoading(false)
loadUserReject(r) ==
    /\ loadPc = "awaitGetMe"
    /\ r \in inflight
    /\ r.config.name = "getMe"
    /\ Deliver(r, FALSE, Null)
    /\ divine_token' = Null
    /\ user' = Null
    /\ isLoading' = FALSE
    /\ loadPc' = "done"
    /\ lastCall' = "loadUserReject"
    /\ UNCHANGED <<nextId, lastRequest, lastResult, errIn, errOut>>

\* login/signup raising the store's loading flag while the request is pending
AuthCallSetsLoading(name, call) ==
    /\ nextId <= MaxCalls
    /\ Send(nextId, name)
    /\ nextId' = nextId + 1
    /\ lastCall' = call
    /\ isLoading' = TRUE
    /\ UNCHANGED <<divine_token, user, loadPc, lastResponse, lastResult, errIn, errOut>>

\* login/signup up to the await of loginUser/registerUser
AuthCall(name, call) ==
    /\ nextId <= MaxCalls
    /\ Send(nextId, name)
    /\ nextId' = nextId + 1
    /\ lastCall' = call
    /\ UNCHANGED <<divine_token, user, isLoading, loadPc, lastResponse, lastResult, errIn, errOut>>

\* the try block without localStorage.setItem
AuthResolveNoPersist(r, a, call) ==
    /\ r \in inflight
    /\ Deliver(r, TRUE, <<a>>)
    /\ user' = <<UserOf(a)>>
    /\ lastResult' = [call |-> call, settled |-> "fulfilled", success |-> TRUE, error |-> Null]
    /\ lastCall' = call \o "Resolve"
    /\ UNCHANGED <<divine_token, isLoading, loadPc, nextId, lastRequest, errIn, errOut>>

\* the try block after the await: store the token and the user, return success
AuthResolve(r, a, call) ==
    /\ r \in inflight
    /\ Deliver(r, TRUE, <<a>>)
    /\ divine_token' = <<TokenOf(a)>>
    /\ user' = <<UserOf(a)>>
    /\ lastResult' = [call |-> call, settled |-> "fulfilled", success |-> TRUE, error |-> Null]
    /\ lastCall' = call \o "Resolve"
    /\ UNCHANGED <<isLoading, loadPc, nextId, lastRequest, errIn, errOut>>

\* a catch block that also drops the session, as loadUser's does
AuthRejectClearsSession(r, error, call) ==
    LET msg == getApiErrorMessage(error) IN
    /\ r \in inflight
    /\ Deliver(r, FALSE, Null)
    /\ divine_token' = Null
    /\ user' = Null
    /\ lastResult' = [call |-> call, settled |-> "fulfilled", success |-> FALSE, error |-> msg.value]
    /\ lastCall' = call \o "Reject"
    /\ UNCHANGED <<isLoading, loadPc, nextId, lastRequest, errIn, errOut>>

\* the catch block: return the normalized message (a throw inside it rejects the promise)
AuthReject(r, error, call) ==
    LET msg == getApiErrorMessage(error) IN
    /\ r \in inflight
    /\ Deliver(r, FALSE, Null)
    /\ lastResult' = IF msg.threw
                     THEN [call |-> call, settled |-> "rejected", success |-> FALSE, error |-> Null]
                     ELSE [call |-> call, settled |-> "fulfilled", success |-> FALSE, error |-> msg.value]
    /\ lastCall' = call \o "Reject"
    /\ UNCHANGED <<divine_token, user, isLoading, loadPc, nextId, lastRequest, errIn, errOut>>

login == AuthCall("loginUser", "login")

loginResolve(r, a) == r.config.name = "loginUser" /\ AuthResolve(r, a, "login")

loginReject(r, error) == r.config.name = "loginUser" /\ AuthReject(r, error, "login")

signup == AuthCall("registerUser", "signup")

signupResolve(r, a) == r.config.name = "registerUser" /\ AuthResolve(r, a, "signup")

signupReject(r, error) == r.config.name = "registerUser" /\ AuthReject(r, error, "signup")

\* logout without setUser(null)
logoutKeepsUser ==
    /\ divine_token' = Null
    /\ lastCall' = "logout"
    /\ UNCHANGED <<user, isLoading, loadPc, nextId, inflight, lastRequest, lastResponse, lastResult, errIn, errOut>>

logout ==
    /\ divine_token' = Null
    /\ user' = Null
    /\ lastCall' = "logout"
    /\ UNCHANGED <<isLoading, loadPc, nextId, inflight, lastRequest, lastResponse, lastResult, errIn, errOut>>

\* !!user
isAuthenticated == user # Null

\* any other caller of an endpoint method of either client module
callEndpoint(client, name) ==
    /\ lastRequest' = <<Outgoing(client, name, divine_token)>>
    /\ lastCall' = "callEndpoint"
    /\ UNCHANGED <<divine_token, user, isLoading, loadPc, nextId, inflight, lastResponse, lastResult, errIn, errOut>>

Next ==
    \/ loadUser /\ UNCHANGED modalVars
    \/ \E r \in inflight, a \in Accounts : loadUserResolve(r, a) /\ UNCHANGED modalVars
    \/ \E r \in inflight : loadUserReject(r) /\ UNCHANGED modalVars
    \/ login /\ UNCHANGED modalVars
    \/ \E r \in inflight, a \in Accounts : loginResolve(r, a) /\ UNCHANGED modalVars
    \/ \E r \in inflight, e \in Rejections : loginReject(r, e) /\ UNCHANGED modalVars
    \/ signup /\ UNCHANGED modalVars
    \/ \E r \in inflight, a \in Accounts : signupResolve(r, a) /\ UNCHANGED modalVars
    \/ \E r \in inflight, e \in Rejections : signupReject(r, e) /\ UNCHANGED modalVars
    \/ logout /\ UNCHANGED modalVars

Spec == Init /\ [][Next]_vars

\* the startup effect runs, and the fetch-current-user call eventually completes
FairSpec ==
    /\ Spec
    /\ WF_vars(loadUser /\ UNCHANGED modalVars)
    /\ WF_vars(\E r \in inflight :
                 /\ (\E a \in Accounts : loadUserResolve(r, a)) \/ loadUserReject(r)
                 /\ UNCHANGED modalVars)

(***************************************************************************)
(* The endpoint methods of both client modules, called by any part of the  *)
(* application while the stored token comes and goes.                      *)
(***************************************************************************)
HttpNext ==
    \/ \E c \in Clients, n \in EndpointNames : callEndpoint(c, n) /\ UNCHANGED modalVars
    \/ login /\ UNCHANGED modalVars
    \/ \E r \in inflight, a \in Accounts : loginResolve(r, a) /\ UNCHANGED modalVars
    \/ logout /\ UNCHANGED modalVars

HttpSpec == Init /\ [][HttpNext]_vars

(***************************************************************************)
(* getApiErrorMessage called on an arbitrary caught value.                 *)
(***************************************************************************)
ErrInit ==
    /\ StoreInit
    /\ errIn \in ErrorValues
    /\ errOut = Null
    /\ ModalInit

callGetApiErrorMessage ==
    /\ errOut = Null
    /\ errOut' = <<getApiErrorMessage(errIn)>>
    /\ UNCHANGED <<errIn, storeVars>>

ErrNext == callGetApiErrorMessage /\ UNCHANGED modalVars

ErrSpec == ErrInit /\ [][ErrNext]_vars

TypeOK ==
    /\ divine_token \in {Null} \cup {<<t>> : t \in Tokens}
    /\ user \in {Null} \cup {<<UserOf(a)>> : a \in Accounts}
    /\ isLoading \in BOOLEAN
    /\ loadPc \in {"start", "awaitGetMe", "done"}
    /\ nextId \in 1..(MaxCalls + 1)

(***************************************************************************)
(* The Auth UI Flow (LoginModal): form fields are sequences of characters. *)
(***************************************************************************)
\* values typed into the form
Empty == <<>>
Blank == <<" ", " ">>
NotAnEmailOrPhone == <<"n", "o", "t", "-", "a", "n", "-", "e", "m", "a", "i", "l", "-", "o", "r", "-", "p", "h", "o", "n", "e">>
GoodEmail == <<"a", ".", "b", "@", "x", "-", "y", ".", "c", "o">>
PaddedEmail == <<" ", "a", "@", "b", ".", "i", "n">>
LongTldEmail == <<"a", "@", "b", ".", "i", "n", "f", "o">>
NoTldEmail == <<"a", "@", "b">>
GoodMobile == <<"9", "8", "7", "6", "5", "4", "3", "2", "1", "0">>
ShortMobile == <<"1", "2", "3", "4", "5">>
LowMobile == <<"5", "8", "7", "6", "5", "4", "3", "2", "1", "0">>
LongMobile == <<"9", "8", "7", "6", "5", "4", "3", "2", "1", "0", "0">>
GoodName == <<"R", "a", "m">>
ShortName == <<"O", "m">>
PaddedName == <<" ", "O", "m", " ">>
GoodPassword == <<"s", "e", "c", "r", "e", "t">>
ShortPassword == <<"1", "2", "3", "4", "5">>

Digits == {"0", "1", "2", "3", "4", "5", "6", "7", "8", "9"}
Letters ==
    {"a", "b", "c", "d", "e", "f", "g", "h", "i", "j", "k", "l", "m",
     "n", "o", "p", "q", "r", "s", "t", "u", "v", "w", "x", "y", "z",
     "A", "B", "C", "D", "E", "F", "G", "H", "I", "J", "K", "L", "M",
     "N", "O", "P", "Q", "R", "S", "T", "U", "V", "W", "X", "Y", "Z"}
\* \w
WordChars == Letters \cup Digits \cup {"_"}
\* \s, as far as the form can receive it
Whitespace == {" "}

\* String.prototype.trim
RECURSIVE TrimStart(_)
TrimStart(s) ==
    IF s # <<>> /\ Head(s) \in Whitespace THEN TrimStart(Tail(s)) ELSE s

RECURSIVE TrimEnd(_)
TrimEnd(s) ==
    IF s # <<>> /\ s[Len(s)] \in Whitespace THEN TrimEnd(SubSeq(s, 1, Len(s) - 1)) ELSE s

Trim(s) == TrimEnd(TrimStart(s))

(***************************************************************************)
(* Regular-expression matching.  A position is the index of the next       *)
(* character to read; a matcher maps the set of positions a match may      *)
(* start from to the set of positions it may end at.                       *)
(***************************************************************************)
\* one character of class C
Lit(s, P, C) == {p + 1 : p \in {q \in P : q <= Len(s) /\ s[q] \in C}}

\* C+
RECURSIVE Plus(_, _, _)
Plus(s, P, C) ==
    LET Q == Lit(s, P, C) IN
    IF Q = {} THEN {} ELSE Q \cup Plus(s, Q, C)

\* C?
Opt(s, P, C) == P \cup Lit(s, P, C)

\* [\.-]?\w+
SepWord(s, P) == Plus(s, Opt(s, P, {".", "-"}), WordChars)

\* ([\.-]?\w+)*
RECURSIVE SepWordStar(_, _)
SepWordStar(s, P) ==
    LET Q == SepWord(s, P) \ P IN
    IF Q = {} THEN P ELSE SepWordStar(s, P \cup Q)

\* \.\w{2,3}
Tld(s, P) ==
    LET two == Lit(s, Lit(s, Lit(s, P, {"."}), WordChars), WordChars) IN
    two \cup Lit(s, two, WordChars)

\* (\.\w{2,3})+
RECURSIVE TldPlus(_, _)
TldPlus(s, P) ==
    LET Q == Tld(s, P) IN
    IF Q = {} THEN {} ELSE Q \cup TldPlus(s, Q)

\* /^\w+([\.-]?\w+)*@\w+([\.-]?\w+)*(\.\w{2,3})+$/.test(s)
EmailPattern(s) ==
    LET local == SepWordStar(s, Plus(s, {1}, WordChars))
        domain == SepWordStar(s, Plus(s, Lit(s, local, {"@"}), WordChars))
    IN  (Len(s) + 1) \in TldPlus(s, domain)

\* /^[6-9]\d{9}$/.test(s)
MobilePattern(s) ==
    (Len(s) + 1) \in
        Lit(s, Lit(s, Lit(s, Lit(s, Lit(s, Lit(s, Lit(s, Lit(s, Lit(s,
            Lit(s, {1}, {"6", "7", "8", "9"}),
            Digits), Digits), Digits), Digits), Digits), Digits), Digits), Digits), Digits)

(***************************************************************************)
(* LoginModal: validation.                                                 *)
(***************************************************************************)
NoErrors == <<>>

\* errors.<field> = message when the test fails
ErrorIf(failed, field, message) == IF failed THEN field :> message ELSE NoErrors

\* a login block that stops at the first failing field
loginErrorsFailFast ==
    IF Trim(loginIdentifier) = <<>>
    THEN "loginIdentifier" :> "Please enter your email or mobile number."
    ELSE IF ~EmailPattern(loginIdentifier) /\ ~MobilePattern(loginIdentifier)
         THEN "loginIdentifier" :> "Please enter a valid email or 10-digit mobile number."
         ELSE ErrorIf(Len(password) < 6, "password", "Password must be at least 6 characters long.")

\* the `view === 'login'` block of validate
loginErrors ==
    (IF Trim(loginIdentifier) = <<>>
     THEN "loginIdentifier" :> "Please enter your email or mobile number."
     ELSE ErrorIf(~EmailPattern(loginIdentifier) /\ ~MobilePattern(loginIdentifier),
                  "loginIdentifier", "Please enter a valid email or 10-digit mobile number."))
    @@ ErrorIf(Len(password) < 6, "password", "Password must be at least 6 characters long.")

\* a signup block that measures the name without trimming it
signupErrorsUntrimmed ==
    ErrorIf(Len(signupName) < 3, "name", "Full name must be at least 3 characters.")
    @@ ErrorIf(~EmailPattern(email), "email", "Please enter a valid email address.")
    @@ ErrorIf(~MobilePattern(mobile), "mobile", "Please enter a valid 10-digit Indian mobile number.")
    @@ ErrorIf(Len(password) < 6, "password", "Password must be at least 6 characters long.")

\* the `view === 'signup'` block of validate
signupErrors ==
    ErrorIf(Len(Trim(signupName)) < 3, "name", "Full name must be at least 3 characters.")
    @@ ErrorIf(~EmailPattern(email), "email", "Please enter a valid email address.")
    @@ ErrorIf(~MobilePattern(mobile), "mobile", "Please enter a valid 10-digit Indian mobile number.")
    @@ ErrorIf(Len(password) < 6, "password", "Password must be at least 6 characters long.")

\* the `view === 'forgotPassword'` block of validate
forgotPasswordErrors ==
    ErrorIf(~EmailPattern(resetEmail), "resetEmail", "Please enter a valid email address.")

\* the `errors` object validate builds and stores
validate ==
    (IF view = "login" THEN loginErrors ELSE NoErrors)
    @@ (IF view = "signup" THEN signupErrors ELSE NoErrors)
    @@ (IF view = "forgotPassword" THEN forgotPasswordErrors ELSE NoErrors)

\* Object.keys(errors).length === 0
IsValid(errors) == DOMAIN errors = {}

(***************************************************************************)
(* LoginModal: handlers.  A submit handler runs only while its form is     *)
(* shown and its submit button is enabled (disabled={isSubmitting}).       *)
(***************************************************************************)
\* the opaque translation function
t(key) == "t(" \o key \o ")"

\* a || b on strings
OrElse(a, b) == IF Truthy(a) THEN a[1] ELSE b

\* a submit handler without `if (!validate()) return`
SubmitWithoutValidation(formView, call, storeCall) ==
    /\ view = formView
    /\ ~isSubmitting
    /\ formError' = ""
    /\ validationErrors' = validate
    /\ isSubmitting' = TRUE
    /\ pending' = pending \cup {[id |-> nextId, call |-> call, user |-> user]}
    /\ storeCall
    /\ lastEvent' = call
    /\ UNCHANGED <<view, fieldVars, timers, onLoginSuccessCalls>>

\* handleLogin / handleSignup up to `await login(...)` / `await signup(...)`;
\* the handler keeps the `user` of the render it was created in
Submit(formView, call, storeCall) ==
    /\ view = formView
    /\ ~isSubmitting
    /\ formError' = ""
    /\ validationErrors' = validate
    /\ IF IsValid(validate)
       THEN /\ isSubmitting' = TRUE
            /\ pending' = pending \cup {[id |-> nextId, call |-> call, user |-> user]}
            /\ storeCall
       ELSE /\ UNCHANGED <<isSubmitting, pending>>
            /\ UNCHANGED <<storeVars, errIn, errOut>>
    /\ lastEvent' = call
    /\ UNCHANGED <<view, fieldVars, timers, onLoginSuccessCalls>>

\* a continuation that shows no form error on failure
AfterAwaitSilent(p, fallbackKey) ==
    /\ pending' = pending \ {p}
    /\ isSubmitting' = FALSE
    /\ IF lastResult'.success /\ p.user # Null
       THEN onLoginSuccessCalls' = Append(onLoginSuccessCalls, p.user[1])
       ELSE UNCHANGED onLoginSuccessCalls
    /\ lastEvent' = p.call \o "Settled"
    /\ UNCHANGED <<view, fieldVars, formError, validationErrors, timers>>

\* a continuation that re-enables the form only after a success
AfterAwaitStaysSubmitting(p, fallbackKey) ==
    /\ pending' = pending \ {p}
    /\ isSubmitting' = ~lastResult'.success
    /\ IF lastResult'.success /\ p.user # Null
       THEN /\ onLoginSuccessCalls' = Append(onLoginSuccessCalls, p.user[1])
            /\ UNCHANGED formError
       ELSE /\ formError' = OrElse(lastResult'.error, t(fallbackKey))
            /\ UNCHANGED onLoginSuccessCalls
    /\ lastEvent' = p.call \o "Settled"
    /\ UNCHANGED <<view, fieldVars, validationErrors, timers>>

\* the rest of handleLogin / handleSignup, once the Session Store call has settled
AfterAwait(p, fallbackKey) ==
    /\ pending' = pending \ {p}
    /\ IF lastResult'.settled = "rejected"
       THEN UNCHANGED <<isSubmitting, formError, onLoginSuccessCalls>>
       ELSE /\ isSubmitting' = FALSE
            /\ IF lastResult'.success /\ p.user # Null
               THEN /\ onLoginSuccessCalls' = Append(onLoginSuccessCalls, p.user[1])
                    /\ UNCHANGED formError
               ELSE /\ formError' = OrElse(lastResult'.error, t(fallbackKey))
                    /\ UNCHANGED onLoginSuccessCalls
    /\ lastEvent' = p.call \o "Settled"
    /\ UNCHANGED <<view, fieldVars, validationErrors, timers>>

handleLogin == Submit("login", "handleLogin", login)

handleLoginResolve(p, r, a) ==
    /\ p.call = "handleLogin" /\ p.id = r.id
    /\ loginResolve(r, a)
    /\ AfterAwait(p, "loginModal.invalidCredentials")

handleLoginReject(p, r, error) ==
    /\ p.call = "handleLogin" /\ p.id = r.id
    /\ loginReject(r, error)
    /\ AfterAwait(p, "loginModal.invalidCredentials")

handleSignup == Submit("signup", "handleSignup", signup)

handleSignupResolve(p, r, a) ==
    /\ p.call = "handleSignup" /\ p.id = r.id
    /\ signupResolve(r, a)
    /\ AfterAwait(p, "loginModal.error.generic")

handleSignupReject(p, r, error) ==
    /\ p.call = "handleSignup" /\ p.id = r.id
    /\ signupReject(r, error)
    /\ AfterAwait(p, "loginModal.error.generic")

\* a reset form whose submit button stays enabled while submitting
handlePasswordResetWhileSubmitting ==
    /\ view = "forgotPassword"
    /\ formError' = ""
    /\ validationErrors' = validate
    /\ IF IsValid(validate)
       THEN /\ isSubmitting' = TRUE
            /\ timers' = timers + 1
       ELSE UNCHANGED <<isSubmitting, timers>>
    /\ lastEvent' = "handlePasswordReset"
    /\ UNCHANGED <<view, fieldVars, pending, onLoginSuccessCalls>>
    /\ UNCHANGED <<storeVars, errIn, errOut>>

\* handlePasswordReset up to setTimeout; the form's submit button is disabled
\* while isSubmitting, so the handler cannot start then
handlePasswordReset ==
    /\ view = "forgotPassword"
    /\ ~isSubmitting
    /\ formError' = ""
    /\ validationErrors' = validate
    /\ IF IsValid(validate)
       THEN /\ isSubmitting' = TRUE
            /\ timers' = timers + 1
       ELSE UNCHANGED <<isSubmitting, timers>>
    /\ lastEvent' = "handlePasswordReset"
    /\ UNCHANGED <<view, fieldVars, pending, onLoginSuccessCalls>>
    /\ UNCHANGED <<storeVars, errIn, errOut>>

\* a timer callback that shows the confirmation only if the form is still shown
resetTimeoutIfStillShown ==
    /\ timers > 0
    /\ timers' = timers - 1
    /\ isSubmitting' = FALSE
    /\ view' = IF view = "forgotPassword" THEN "resetSent" ELSE view
    /\ lastEvent' = "resetTimeout"
    /\ UNCHANGED <<fieldVars, formError, validationErrors, pending, onLoginSuccessCalls>>
    /\ UNCHANGED <<storeVars, errIn, errOut>>

\* the setTimeout callback of handlePasswordReset
resetTimeout ==
    /\ timers > 0
    /\ timers' = timers - 1
    /\ isSubmitting' = FALSE
    /\ view' = "resetSent"
    /\ lastEvent' = "resetTimeout"
    /\ UNCHANGED <<fieldVars, formError, validationErrors, pending, onLoginSuccessCalls>>
    /\ UNCHANGED <<storeVars, errIn, errOut>>

\* the links each view renders: <<view, target of switchTo>>
SwitchLinks ==
    { <<"login", "forgotPassword">>, <<"login", "signup">>,
      <<"signup", "login">>, <<"forgotPassword", "login">> }

\* a switch that also empties the shared password field
switchToClearsPassword(targetView) ==
    /\ <<view, targetView>> \in SwitchLinks
    /\ formError' = ""
    /\ validationErrors' = NoErrors
    /\ view' = targetView
    /\ password' = <<>>
    /\ lastEvent' = "switchTo"
    /\ UNCHANGED <<loginIdentifier, signupName, email, mobile, resetEmail>>
    /\ UNCHANGED <<isSubmitting, pending, timers, onLoginSuccessCalls>>
    /\ UNCHANGED <<storeVars, errIn, errOut>>

switchTo(targetView) ==
    /\ <<view, targetView>> \in SwitchLinks
    /\ formError' = ""
    /\ validationErrors' = NoErrors
    /\ view' = targetView
    /\ lastEvent' = "switchTo"
    /\ UNCHANGED <<fieldVars, isSubmitting, pending, timers, onLoginSuccessCalls>>
    /\ UNCHANGED <<storeVars, errIn, errOut>>

\* onChange of the inputs of the view shown
FieldsOf(v) ==
    IF v = "login" THEN {"loginIdentifier", "password"}
    ELSE IF v = "signup" THEN {"name", "email", "mobile", "password"}
    ELSE IF v = "forgotPassword" THEN {"resetEmail"}
    ELSE {}

onChange(field, value) ==
    /\ field \in FieldsOf(view)
    /\ loginIdentifier' = IF field = "loginIdentifier" THEN value ELSE loginIdentifier
    /\ signupName' = IF field = "name" THEN value ELSE signupName
    /\ email' = IF field = "email" THEN value ELSE email
    /\ mobile' = IF field = "mobile" THEN value ELSE mobile
    /\ resetEmail' = IF field = "resetEmail" THEN value ELSE resetEmail
    /\ password' = IF field = "password" THEN value ELSE password
    /\ lastEvent' = "onChange"
    /\ UNCHANGED <<view, formError, validationErrors, isSubmitting, pending, timers, onLoginSuccessCalls>>
    /\ UNCHANGED <<storeVars, errIn, errOut>>

\* what the user does to each field while the modal runs: fill it in, or clear it
Typed ==
    [loginIdentifier |-> {GoodMobile, Empty},
     name |-> {GoodName, Empty},
     email |-> {GoodEmail, Empty},
     mobile |-> {GoodMobile, Empty},
     resetEmail |-> {GoodEmail, Empty},
     password |-> {GoodPassword, Empty}]

\* the failures a submit is tried against: an HTTP error with a body message,
\* an HTTP error without one, no response, and a failure before sending
SubmitRejections ==
    {e \in Rejections :
        /\ e.isAxiosError
        /\ e.message = <<"boom">>
        /\ e.response # Null
             => /\ e.response[1].status = 401
                /\ e.response[1].data \in {Null, <<[message |-> <<"Invalid credentials">>]>>}}

ModalNext ==
    \/ \E f \in DOMAIN Typed : \E v \in Typed[f] : onChange(f, v)
    \/ \E target \in {"login", "signup", "forgotPassword"} : switchTo(target)
    \/ handleLogin
    \/ \E p \in pending, r \in inflight, a \in Accounts : handleLoginResolve(p, r, a)
    \/ \E p \in pending, r \in inflight, e \in SubmitRejections : handleLoginReject(p, r, e)
    \/ handleSignup
    \/ \E p \in pending, r \in inflight, a \in Accounts : handleSignupResolve(p, r, a)
    \/ \E p \in pending, r \in inflight, e \in SubmitRejections : handleSignupReject(p, r, e)
    \/ handlePasswordReset
    \/ resetTimeout

\* the modal is opened by a visitor without a stored token, after loadUser
\* has finished (the state loadUser reaches from Init when no token is stored)
ModalOpened ==
    /\ divine_token = Null
    /\ user = Null
    /\ isLoading = FALSE
    /\ loadPc = "done"
    /\ nextId = 1
    /\ inflight = {}
    /\ lastRequest = Null
    /\ lastResponse = Null
    /\ lastResult = NoResult
    /\ lastCall = "loadUser"
    /\ errIn = UndefinedError
    /\ errOut = Null
    /\ ModalInit

ModalSpec == ModalOpened /\ [][ModalNext]_vars

\* the timer fires, and every Session Store call eventually settles
ModalFairSpec ==
    /\ ModalSpec
    /\ WF_vars(resetTimeout)
    /\ WF_vars(\E p \in pending, r \in inflight :
                 \/ \E a \in Accounts : handleLoginResolve(p, r, a) \/ handleSignupResolve(p, r, a)
                 \/ \E e \in SubmitRejections : handleLoginReject(p, r, e) \/ handleSignupReject(p, r, e))

(***************************************************************************)
(* validate on the values a user can have typed when a form is submitted.  *)
(***************************************************************************)
IdentifierInputs ==
    {Empty, Blank, NotAnEmailOrPhone, GoodEmail, PaddedEmail, GoodMobile, LowMobile}
NameInputs == {Empty, GoodName, ShortName, PaddedName}
EmailInputs == {Empty, GoodEmail, LongTldEmail, NoTldEmail}
MobileInputs == {GoodMobile, ShortMobile, LowMobile, LongMobile}
PasswordInputs == {Empty, GoodPassword, ShortPassword}

ValidationInit ==
    /\ StoreInit
    /\ errIn = UndefinedError
    /\ errOut = Null
    /\ view \in {"login", "signup", "forgotPassword"}
    /\ loginIdentifier \in IdentifierInputs
    /\ signupName \in NameInputs
    /\ email \in EmailInputs
    /\ mobile \in MobileInputs
    /\ resetEmail \in EmailInputs
    /\ password \in PasswordInputs
    /\ formError = ""
    /\ validationErrors = NoErrors
    /\ isSubmitting = FALSE
    /\ pending = {}
    /\ timers = 0
    /\ onLoginSuccessCalls = <<>>
    /\ lastEvent = "none"

ValidationNext ==
    \/ handleLogin
    \/ handleSignup
    \/ handlePasswordReset

ValidationSpec == ValidationInit /\ [][ValidationNext]_vars

(***************************************************************************)
(* Properties                                                              *)
(***************************************************************************)
\* the response handed to the continuation that runs in this step
Delivered(names, ok) ==
    /\ lastResponse' # lastResponse
    /\ lastResponse'[1].name \in names
    /\ lastResponse'[1].ok = ok

AuthEndpoints == {"loginUser", "registerUser"}

\* no request leaves the client in this step
NoRequestSent == inflight' = inflight /\ lastRequest' = lastRequest

\* C1: when the startup fetch-current-user call fails, loadUser ends with
\* user = null, the token removed from storage and isLoading = false.
C1_RestoreFailureEndsAnonymous ==
    [][Delivered({"getMe"}, FALSE)
         => (user' = Null /\ divine_token' = Null /\ isLoading' = FALSE)]_vars

C1_Witness ==
    /\ lastCall = "loadUserReject"
    /\ lastResponse # Null /\ lastResponse[1].name = "getMe" /\ ~lastResponse[1].ok
    /\ lastRequest # Null /\ lastRequest[1].Authorization # Null
    /\ user = Null /\ divine_token = Null /\ ~isLoading

\* C2: when the startup fetch-current-user call succeeds, loadUser ends with
\* user equal to the fetched user, isLoading = false, and a token still stored.
C2_RestoreSuccessKeepsToken ==
    [][Delivered({"getMe"}, TRUE)
         => /\ user' = <<UserOf(lastResponse'[1].account[1])>>
            /\ isLoading' = FALSE
            /\ divine_token' # Null]_vars

\* C3: a startup that finds no stored token goes to user = null,
\* isLoading = false and sends no request.
C3_NoTokenNoRequest ==
    [][(loadPc = "start" /\ loadPc' # "start" /\ divine_token = Null)
         => (user' = Null /\ isLoading' = FALSE /\ NoRequestSent)]_vars

C3_Witness ==
    /\ lastCall = "loadUser"
    /\ loadPc = "done"
    /\ divine_token = Null /\ user = Null /\ ~isLoading
    /\ lastRequest = Null /\ inflight = {}

\* C4: isLoading starts true, eventually becomes false once the restore
\* attempt completes, and once false is never true again, whatever login,
\* signup or logout does afterwards (so it changes exactly once).
C4_LoadingFallsOnce ==
    /\ isLoading = TRUE
    /\ [][isLoading = FALSE => isLoading' = FALSE]_vars
    /\ <>[](isLoading = FALSE)

C4_Witness ==
    /\ ~isLoading
    /\ loadPc = "done"
    /\ lastCall \in {"loginResolve", "signupResolve", "loginReject", "signupReject", "logout"}

\* C5: when the login or register endpoint answers successfully, the returned
\* token is stored, user is the returned user, isAuthenticated is true and the
\* call returns success = true without an error field.
C5_AuthSuccess ==
    [][Delivered(AuthEndpoints, TRUE)
         => /\ divine_token' = <<TokenOf(lastResponse'[1].account[1])>>
            /\ user' = <<UserOf(lastResponse'[1].account[1])>>
            /\ isAuthenticated'
            /\ lastResult'.settled = "fulfilled"
            /\ lastResult'.success = TRUE
            /\ lastResult'.error = Null]_vars

C5_Witness ==
    /\ lastCall \in {"loginResolve", "signupResolve"}
    /\ lastResponse # Null /\ lastResponse[1].ok
    /\ user = <<UserOf("B")>> /\ divine_token = <<TokenOf("B")>>
    /\ lastResult.success

\* C6: when a login or signup call fails, user and the stored token are what
\* they were before the continuation ran, and the call returns success = false
\* with a non-empty error string.
C6_AuthFailure ==
    [][Delivered(AuthEndpoints, FALSE)
         => /\ user' = user
            /\ divine_token' = divine_token
            /\ lastResult'.settled = "fulfilled"
            /\ lastResult'.success = FALSE
            /\ Truthy(lastResult'.error)]_vars

C6_Witness ==
    /\ lastCall \in {"loginReject", "signupReject"}
    /\ lastResponse # Null /\ ~lastResponse[1].ok
    /\ user # Null /\ divine_token # Null
    /\ ~lastResult.success /\ lastResult.error = <<"Error: 500 - ">>

\* C7: logout can be called in every state; it removes the stored token and
\* sets user to null, sends no request and leaves isLoading unchanged.
C7_Logout ==
    /\ [](ENABLED logout)
    /\ [][lastCall' = "logout"
            => /\ divine_token' = Null
               /\ user' = Null
               /\ ~isAuthenticated'
               /\ NoRequestSent
               /\ isLoading' = isLoading]_vars

C7_Witness ==
    /\ lastCall = "logout"
    /\ divine_token = Null /\ user = Null
    /\ isLoading /\ inflight # {}

\* C8: in every reachable state the store is in exactly one of Bootstrapping,
\* Anonymous and Authenticated; user is never set while isLoading is true.
Bootstrapping == isLoading /\ user = Null
Anonymous == ~isLoading /\ user = Null
Authenticated == ~isLoading /\ user # Null

C8_ThreeStates ==
    /\ Bootstrapping \/ Anonymous \/ Authenticated
    /\ ~(Bootstrapping /\ Anonymous)
    /\ ~(Bootstrapping /\ Authenticated)
    /\ ~(Anonymous /\ Authenticated)

\* C9: every request sent through a client module while a token is stored
\* carries that token as a Bearer Authorization header.
C9_BearerOnEveryRequest ==
    [][(lastRequest' # lastRequest /\ Truthy(divine_token))
         => lastRequest'[1].Authorization = <<Bearer(divine_token[1])>>]_vars

\* C10: getApiErrorMessage never throws and always returns a string.
C10_NeverThrows ==
    errOut # Null => (~errOut[1].threw /\ errOut[1].value # Null)

\* C11: getApiErrorMessage returns the body's message when an HTTP response
\* was received and carries one, otherwise the status code and status text;
\* the fixed no-response message when the request got no response; and
\* otherwise the error's own message, or the generic fallback when it has none.
HasOwnMessage(error) == error.kind = "object" /\ Truthy(error.message)

C11_Expected(error) ==
    IF isAxiosError(error) /\ error.response # Null
    THEN IF Truthy(DataMessage(error.response[1]))
         THEN DataMessage(error.response[1])[1]
         ELSE StatusString(error.response[1])
    ELSE IF isAxiosError(error) /\ error.request
         THEN NoResponseMessage
         ELSE IF HasOwnMessage(error) THEN error.message[1] ELSE UnexpectedMessage

C11_ReturnsByCase ==
    errOut # Null => errOut[1] = Returns(C11_Expected(errIn))

\* a handleLogin/handleSignup invocation resumes after its await in this step
Settles == pending' # pending /\ pending' \subseteq pending

SubmitEvents == {"handleLogin", "handleSignup", "handlePasswordReset"}

\* C12: after a login or signup submit for which the Session Store reports
\* success, onLoginSuccess is invoked with the now-current user and the form
\* error is left empty.
C12_SuccessCallsBack ==
    [][(Settles /\ lastResult'.settled = "fulfilled" /\ lastResult'.success)
         => /\ onLoginSuccessCalls' = Append(onLoginSuccessCalls, user'[1])
            /\ formError' = ""]_vars

\* C13: after a login or signup submit for which the Session Store reports
\* failure, onLoginSuccess is not invoked and the form error is the returned
\* message, or the handler's localized fallback when none was returned.
C13_FailureShowsError ==
    [][(Settles /\ lastResult'.settled = "fulfilled" /\ ~lastResult'.success)
         => /\ onLoginSuccessCalls' = onLoginSuccessCalls
            /\ formError' = IF Truthy(lastResult'.error)
                            THEN lastResult'.error[1]
                            ELSE IF lastResult'.call = "login"
                                 THEN t("loginModal.invalidCredentials")
                                 ELSE t("loginModal.error.generic")]_vars

C13_Witness ==
    /\ lastEvent = "handleLoginSettled"
    /\ lastResult.settled = "fulfilled" /\ ~lastResult.success
    /\ formError = "Invalid credentials"
    /\ onLoginSuccessCalls = <<>>
    /\ ~isSubmitting

\* C14: a submit whose validation leaves a field error makes no Session Store
\* call, starts no reset timer and leaves submitting false; a call is made
\* only when the error map is empty.
C14_InvalidSubmitBlocked ==
    [][lastEvent' \in SubmitEvents
         => /\ ~IsValid(validationErrors')
                => /\ NoRequestSent
                   /\ pending' = pending
                   /\ timers' = timers
                   /\ isSubmitting' = FALSE
            /\ ~NoRequestSent => IsValid(validationErrors')]_vars

C14_Witness ==
    /\ lastEvent = "handleSignup"
    /\ DOMAIN validationErrors = {"name"}
    /\ email = GoodEmail /\ mobile = GoodMobile /\ password = GoodPassword
    /\ lastRequest = Null /\ inflight = {} /\ pending = {} /\ timers = 0
    /\ ~isSubmitting

\* C15: every change of view is Login->Signup, Signup->Login,
\* Login->ForgotPassword, ForgotPassword->Login or ForgotPassword->ResetSent.
C15_ViewChanges ==
    [][view' # view
         => <<view, view'>> \in SwitchLinks \cup {<<"forgotPassword", "resetSent">>}]_vars

\* C16: every switchTo empties the form error and the validation-error map
\* and leaves every field value unchanged.
C16_SwitchClearsErrorsOnly ==
    [][lastEvent' = "switchTo"
         => /\ formError' = ""
            /\ validationErrors' = NoErrors
            /\ fieldVars' = fieldVars]_vars

C16_Witness ==
    /\ lastEvent = "switchTo"
    /\ view = "login"
    /\ email = GoodEmail /\ password = GoodPassword
    /\ lastResult.settled = "fulfilled" /\ ~lastResult.success
    /\ formError = "" /\ validationErrors = NoErrors

\* C17: after a login submit the identifier has an error exactly when it is
\* empty or matches neither the email nor the mobile pattern, the password
\* exactly when it is shorter than 6, and both are reported together.
C17_LoginValidation ==
    lastEvent = "handleLogin"
      => /\ ("loginIdentifier" \in DOMAIN validationErrors)
              <=> \/ loginIdentifier = Empty
                  \/ ~EmailPattern(loginIdentifier) /\ ~MobilePattern(loginIdentifier)
         /\ ("password" \in DOMAIN validationErrors) <=> Len(password) < 6
         /\ DOMAIN validationErrors \subseteq {"loginIdentifier", "password"}
         /\ loginIdentifier = NotAnEmailOrPhone => "loginIdentifier" \in DOMAIN validationErrors
         /\ loginIdentifier \in {GoodEmail, GoodMobile} => "loginIdentifier" \notin DOMAIN validationErrors

C17_Witness ==
    /\ lastEvent = "handleLogin"
    /\ loginIdentifier = NotAnEmailOrPhone
    /\ password = ShortPassword
    /\ DOMAIN validationErrors = {"loginIdentifier", "password"}
    /\ inflight = {}

\* C18: after a signup submit the error map has an entry for exactly those of
\* name, email, mobile and password that are invalid, each independently.
C18_InvalidSignupFields ==
    {f \in {"name", "email", "mobile", "password"} :
        \/ f = "name" /\ Len(Trim(signupName)) < 3
        \/ f = "email" /\ ~EmailPattern(email)
        \/ f = "mobile" /\ ~MobilePattern(mobile)
        \/ f = "password" /\ Len(password) < 6}

C18_SignupValidation ==
    lastEvent = "handleSignup"
      => /\ DOMAIN validationErrors = C18_InvalidSignupFields
         /\ mobile = ShortMobile => "mobile" \in DOMAIN validationErrors
         /\ mobile = GoodMobile => "mobile" \notin DOMAIN validationErrors

C18_Witness ==
    /\ lastEvent = "handleSignup"
    /\ signupName = PaddedName /\ email = GoodEmail
    /\ mobile = LowMobile /\ password = GoodPassword
    /\ DOMAIN validationErrors = {"name", "mobile"}
    /\ inflight = {}

\* C19: a validated forgot-password submit sends no request and sets
\* submitting true; when its timer fires submitting becomes false and the view
\* becomes ResetSent, whatever the view is then; and the timer does fire.
C19_PasswordReset ==
    /\ [][(lastEvent' = "handlePasswordReset" /\ IsValid(validationErrors'))
            => (NoRequestSent /\ isSubmitting' = TRUE /\ timers' = timers + 1)]_vars
    /\ [][timers' < timers => (isSubmitting' = FALSE /\ view' = "resetSent")]_vars
    /\ (timers > 0) ~> (view = "resetSent")

C19_Witness ==
    /\ lastEvent = "resetTimeout"
    /\ view = "resetSent"
    /\ ~isSubmitting
    /\ lastRequest = Null

\* C20: from a validated login or signup submit until its Session Store call
\* settles submitting is true; the step in which the call settles sets it to
\* false, and every such call leads to submitting being false again.
C20_SubmittingWhilePending ==
    /\ [](pending # {} => isSubmitting)
    /\ [][Settles => isSubmitting' = FALSE]_vars
    /\ (pending # {}) ~> (isSubmitting = FALSE)

C20_Witness ==
    /\ lastEvent = "handleSignupSettled"
    /\ lastResult.settled = "fulfilled" /\ ~lastResult.success
    /\ lastResult.error = <<NoResponseMessage>>
    /\ ~isSubmitting /\ pending = {}

\* the submissions of the modal that have started and not finished
InFlightSubmissions == Cardinality(pending) + timers

\* C21: the modal never has more than one submission in flight (a login
\* request, a signup request or a pending reset timer), also when the user
\* switches views while one is pending.
C21_OneSubmissionInFlight == InFlightSubmissions <= 1

\* a login submission is pending, the user has switched to the signup view
\* and filled the signup form in, and its submit button is disabled
C21_Witness ==
    /\ view = "signup"
    /\ IsValid(validate)
    /\ isSubmitting
    /\ \E p \in pending : p.call = "handleLogin"

\* a login or signup call has returned success and its session is still there
SessionEstablished == lastResult.success /\ user # Null /\ divine_token # Null

\* C22: once a login or signup call has returned success, user stays set and
\* the token stays persisted until logout is called; a fetch-current-user
\* response that arrives afterwards clears neither.
C22_SessionKeptUntilLogout ==
    [][(SessionEstablished /\ lastCall' # "logout")
          => (user' # Null /\ divine_token' # Null)]_vars

\* C23: in every reachable state, user # null implies that a token is
\* persisted in storage.
C23_UserImpliesToken == user # Null => divine_token # Null

\* C24: whenever user is set and a token is persisted, the stored user is
\* the account the persisted token belongs to.
C24_UserMatchesToken ==
    (user # Null /\ divine_token # Null)
        => \E a \in Accounts : user = <<UserOf(a)>> /\ divine_token = <<TokenOf(a)>>

====
